---- MODULE Spec2Model ----
(***************************************************************************)
(* Rockchip Video Decoder 2 (rkvdec2): control path of the stateless       *)
(* decoder driver, drivers/media/platform/rockchip/rkvdec2/rkvdec2.c.      *)
(*                                                                         *)
(* Three parts of the driver are modelled over one set of variables:       *)
(*   - job execution and completion (device_run, interrupt handler,        *)
(*     watchdog work)                                   -> SpecJob         *)
(*   - the scratch (RCB) buffer allocator driven by start/stop streaming   *)
(*                                                      -> SpecRcb         *)
(*   - format / control negotiation of one session      -> SpecFmt         *)
(***************************************************************************)
EXTENDS Integers, Sequences, FiniteSets, TLC

VARIABLES
    \* ---- device (struct rkvdec2_dev), set at probe
    sram_pool,        \* rkvdec->sram_pool != NULL
    iommu_domain,     \* rkvdec->iommu_domain != NULL
    empty_domain,     \* rkvdec->empty_domain != NULL
    \* ---- job execution
    curr_job,         \* job owned by the m2m scheduler's curr_ctx (NoJob: curr_ctx == NULL)
    jobs_run,         \* number of device_run calls made so far
    watchdog_work,    \* delayed work: "idle", "pending" (timer or queued), "running"
    wd_job,           \* job for which the watchdog was armed
    hw_job,           \* job the decode engine is executing (NoJob: stopped)
    irq_line,         \* job whose completion raised the not yet handled interrupt
    irq_pc,           \* position of the threaded interrupt handler
    irq_ctx,          \* handler local: ctx read from v4l2_m2m_get_curr_priv
    irq_status,       \* handler local: status read from RKVDEC2_REG_STA_INT
    irq_state,        \* handler local: state classified from the status
    irq_job,          \* job whose interrupt the running handler serves
    reg_sta_int,      \* RKVDEC2_REG_STA_INT (set of status bits)
    reg_irq_dis,      \* RKVDEC2_REG_IMPORTANT_EN holds RKVDEC2_REG_DEC_IRQ_DISABLE
    reg_dec_e,        \* RKVDEC2_REG_DEC_E
    pm_usage,         \* runtime-PM usage count held by the driver
    fin_count,        \* per job: times it was reported finished to the scheduler
    outcome,          \* per job: vb2 buffer state it was finished with
    path_fin,         \* per job: completion paths caused by it that performed a finish
    oops,             \* the interrupt thread dereferenced a NULL ctx
    iommu_restored,   \* jobs whose completion path ran the empty-domain attach /
                      \* detach / re-attach sequence of rkvdec2_iommu_restore
    run_failed,       \* jobs whose run hook returned an error to rkvdec2_device_run
    \* ---- session (struct rkvdec2_ctx) and its two vb2 queues
    coded_fmt,        \* ctx->coded_fmt.fmt.pix_mp
    coded_fmt_desc,   \* ctx->coded_fmt_desc, as an index into rkvdec2_coded_fmts
    decoded_fmt,      \* ctx->decoded_fmt.fmt.pix_mp
    image_fmt,        \* ctx->image_fmt
    out_busy,         \* vb2_is_busy(OUTPUT queue): buffers are allocated
    out_streaming,    \* vb2_is_streaming(OUTPUT queue)
    cap_busy,         \* vb2_is_busy(CAPTURE queue)
    cap_streaming,    \* vb2_is_streaming(CAPTURE queue)
    rcb_bufs,         \* ctx->rcb_bufs[RKVDEC2_RCB_COUNT]
    src_bufs,         \* m2m ready queue of coded buffers: per buffer, whether a
                      \* control request is attached (req_obj.req != NULL)
    dst_bufs,         \* m2m ready queue of decoded buffers, likewise
    op_trace,         \* what the last queue operation called, in order
    \* ---- memory collaborators
    sram_used,        \* pages of the on-chip pool that are allocated
    dma_live,         \* coherent system-memory buffers that are allocated
    iommu_mapped,     \* pages mapped through rkvdec->iommu_domain
    unmap_oops,       \* iommu_unmap() was called with a NULL domain and faulted
    rcb_allocated,    \* buffers the last operation allocated, in order
    rcb_released,     \* buffers the last operation released, in order
    pool_at_start,    \* sram_used when the OUTPUT queue was last started
    arg_pix,          \* pixel format requested by the last set-format call
    arg_ctrl,         \* what the last control call passed: the result of the codec's
                      \* try_ctrl hook and the image kind of the control value
    arg_planes,       \* what the last queue_setup call was passed and gave back
    arg_fsize,        \* struct v4l2_frmsizeenum of the last enum_framesizes call
    \* ---- observation of the last operation
    last,             \* name of the last operation
    ret               \* its return value / the branch it took

jobVars == <<curr_job, jobs_run, watchdog_work, wd_job, hw_job, irq_line, irq_pc,
             irq_ctx, irq_status, irq_state, irq_job, reg_sta_int, reg_irq_dis, reg_dec_e,
             pm_usage, fin_count, outcome, path_fin, oops,
             iommu_restored, run_failed>>
devVars == <<sram_pool, iommu_domain, empty_domain>>
fmtVars == <<coded_fmt, coded_fmt_desc, decoded_fmt, image_fmt>>
queueVars == <<out_busy, out_streaming, cap_busy, cap_streaming>>
memVars == <<sram_used, dma_live, iommu_mapped, unmap_oops>>
rcbVars == <<rcb_bufs, memVars, rcb_allocated, rcb_released, pool_at_start>>
bufVars == <<src_bufs, dst_bufs, op_trace>>
sessVars == <<fmtVars, queueVars, rcbVars, bufVars, arg_pix, arg_ctrl,
             arg_planes, arg_fsize>>
obsVars == <<last, ret>>
vars == <<devVars, jobVars, sessVars, obsVars>>

----------------------------------------------------------------------------
(* Bounds *)
MaxJobs == 3
\* pages of the on-chip pool (its size comes from the device tree)
SramPages == 12
\* coherent system-memory buffers that can exist at once
DmaSlots == 10
\* buffers that can wait on one m2m ready queue
MaxBufs == 2

(* Program constants *)
NoJob == 0
NULL == 0
\* a struct v4l2_frmsizeenum that no call has filled
NoStepwise == [min_width |-> 0, max_width |-> 0, step_width |-> 0,
               min_height |-> 0, max_height |-> 0, step_height |-> 0]
NoFsize == [index |-> 0, pixel_format |-> "-", type |-> "-", stepwise |-> NoStepwise]
\* no queue_setup call was made
NoPlanes == [is_out |-> FALSE, num_planes |-> 0, sizes |-> <<>>,
             num_planes_out |-> 0, sizes_out |-> <<>>]
\* no control value was passed
NoCtrl == [hook_ok |-> TRUE, img |-> "-"]
CTX == 1
Jobs == 1..MaxJobs

VB2_BUF_STATE_DONE == "DONE"
VB2_BUF_STATE_ERROR == "ERROR"
STA_INT_DEC_RDY_STA == "DEC_RDY_STA"
STA_INT_SOFTRESET_RDY == "SOFTRESET_RDY"
\* values the status register can hold when the engine stops (other error
\* bits are the empty set: neither ready nor soft-reset ready)
StatusValues == SUBSET {STA_INT_DEC_RDY_STA, STA_INT_SOFTRESET_RDY}

----------------------------------------------------------------------------
(* Job execution and completion *)

\* v4l2_m2m_get_curr_priv(): the running context or NULL
v4l2_m2m_get_curr_priv == IF curr_job = NoJob THEN NULL ELSE CTX

\* v4l2_m2m_buf_done_and_job_finish(): the scheduler's current job `cur` is
\* reported finished with `result`; without a current job it is a no-op.
v4l2_m2m_buf_done_and_job_finish(cur, result) ==
    /\ fin_count' = IF cur = NoJob THEN fin_count
                    ELSE [fin_count EXCEPT ![cur] = @ + 1]
    /\ outcome' = IF cur = NoJob THEN outcome
                  ELSE [outcome EXCEPT ![cur] = result]
    /\ curr_job' = NoJob

\* rkvdec2_job_finish_no_pm(): done hook (no state of the model), then finish
rkvdec2_job_finish_no_pm(cur, result) ==
    v4l2_m2m_buf_done_and_job_finish(cur, result)

\* variant: the PM reference is kept
rkvdec2_job_finish_no_put(cur, result, usage) ==
    /\ pm_usage' = usage
    /\ rkvdec2_job_finish_no_pm(cur, result)

\* rkvdec2_job_finish(): mark last busy, put the PM reference (usage count
\* `usage` before the put), then finish
rkvdec2_job_finish(cur, result, usage) ==
    /\ pm_usage' = usage - 1
    /\ rkvdec2_job_finish_no_pm(cur, result)

\* cancel_delayed_work(): TRUE iff the work was pending and is now cancelled
cancel_delayed_work == watchdog_work = "pending"

\* desc->ops->run(): a succeeding hook programs the registers, arms the
\* watchdog and starts the engine; a failing hook returns before either.
ops_run(job, run_ok) ==
    IF run_ok
    THEN /\ watchdog_work' = "pending"
         /\ wd_job' = job
         /\ hw_job' = job
         /\ reg_irq_dis' = FALSE
         /\ reg_dec_e' = TRUE
    ELSE \* cancel_delayed_work() of rkvdec2_device_run
         /\ watchdog_work' = IF cancel_delayed_work THEN "idle" ELSE watchdog_work
         /\ UNCHANGED <<wd_job, hw_job, reg_irq_dis, reg_dec_e>>

\* variant: the failed resume is finished through rkvdec2_job_finish(),
\* which puts a reference that was never taken
device_run_resume_failed_put(job) ==
    /\ ret' = "EPM"
    /\ rkvdec2_job_finish(job, VB2_BUF_STATE_ERROR, pm_usage)
    /\ UNCHANGED <<watchdog_work, wd_job, hw_job, reg_irq_dis, reg_dec_e>>

\* rkvdec2_device_run() when pm_runtime_resume_and_get() failed: no
\* reference is held, the job is finished without a put
device_run_resume_failed(job) ==
    /\ ret' = "EPM"
    /\ rkvdec2_job_finish_no_pm(job, VB2_BUF_STATE_ERROR)
    /\ UNCHANGED <<pm_usage, watchdog_work, wd_job, hw_job, reg_irq_dis, reg_dec_e>>

\* variant: the failed run hook is answered with a plain return, the job is
\* left current and the reference held
device_run_hook_failed_no_finish(job) ==
    /\ ret' = "ERUN"
    /\ run_failed' = run_failed \cup {job}
    /\ ops_run(job, FALSE)
    /\ pm_usage' = pm_usage + 1
    /\ curr_job' = job
    /\ UNCHANGED <<fin_count, outcome>>

\* rkvdec2_device_run() when the run hook returned an error: the reference
\* taken by the resume is held, the watchdog is cancelled and the job is
\* finished with VB2_BUF_STATE_ERROR
device_run_hook_failed(job) ==
    /\ ret' = "ERUN"
    /\ run_failed' = run_failed \cup {job}
    /\ ops_run(job, FALSE)
    /\ rkvdec2_job_finish(job, VB2_BUF_STATE_ERROR, pm_usage + 1)

\* the job scheduler makes the next job current and calls rkvdec2_device_run()
rkvdec2_device_run(pm_ok, run_ok) ==
    /\ out_streaming /\ cap_streaming
    /\ curr_job = NoJob
    /\ jobs_run < MaxJobs
    /\ jobs_run' = jobs_run + 1
    /\ last' = "device_run"
    /\ UNCHANGED <<irq_line, irq_pc, irq_ctx, irq_status, irq_state, irq_job,
                   reg_sta_int, path_fin, oops, iommu_restored>>
    /\ LET job == jobs_run + 1 IN
       IF ~pm_ok
       THEN /\ device_run_resume_failed(job)
            /\ UNCHANGED run_failed
       ELSE IF run_ok
       THEN /\ ret' = "OK"
            /\ pm_usage' = pm_usage + 1
            /\ ops_run(job, TRUE)
            /\ curr_job' = job
            /\ UNCHANGED <<fin_count, outcome, run_failed>>
       ELSE device_run_hook_failed(job)

\* the decode engine stops on its own (picture decoded, or a fault): it
\* latches its status and raises the interrupt
hw_complete(status) ==
    /\ hw_job # NoJob
    /\ reg_sta_int' = status
    /\ irq_line' = hw_job
    /\ hw_job' = NoJob
    /\ last' = "hw_complete"
    /\ ret' = "OK"
    /\ UNCHANGED <<curr_job, jobs_run, watchdog_work, wd_job, irq_pc, irq_ctx,
                   irq_status, irq_state, irq_job, reg_irq_dis, reg_dec_e, pm_usage,
                   fin_count, outcome, path_fin, oops, iommu_restored, run_failed>>

\* rkvdec2_iommu_restore(), called while serving `job`: with both domains
\* present the empty domain is attached and detached and the real domain
\* attached again; otherwise nothing is done
rkvdec2_iommu_restore(job) ==
    iommu_restored' = IF iommu_domain /\ empty_domain
                      THEN iommu_restored \cup {job} ELSE iommu_restored

\* variant: the classification looks at the soft-reset bit
irq_state_of_softreset(status) ==
    IF STA_INT_SOFTRESET_RDY \in status
    THEN VB2_BUF_STATE_DONE ELSE VB2_BUF_STATE_ERROR

\* rkvdec2_irq_handler(): state = (status & STA_INT_DEC_RDY_STA) ? DONE : ERROR
irq_state_of(status) ==
    IF STA_INT_DEC_RDY_STA \in status
    THEN VB2_BUF_STATE_DONE ELSE VB2_BUF_STATE_ERROR

\* rkvdec2_irq_handler(): need_reset
irq_need_reset(status) ==
    irq_state_of(status) # VB2_BUF_STATE_DONE \/ STA_INT_SOFTRESET_RDY \in status

\* rkvdec2_irq_handler(), up to the call of cancel_delayed_work(): read the
\* current context, read and classify the status, clear it, restore the
\* IOMMU if a reset is needed
rkvdec2_irq_handler_entry ==
    /\ irq_line # NoJob
    /\ irq_pc = "idle"
    /\ irq_ctx' = v4l2_m2m_get_curr_priv
    /\ irq_status' = reg_sta_int
    /\ irq_state' = irq_state_of(reg_sta_int)
    /\ reg_sta_int' = {}
    /\ IF irq_need_reset(reg_sta_int)
       THEN rkvdec2_iommu_restore(irq_line)
       ELSE UNCHANGED iommu_restored
    /\ irq_job' = irq_line
    /\ irq_line' = NoJob
    /\ irq_pc' = "cancel"
    /\ last' = "irq_entry"
    /\ ret' = "OK"
    /\ UNCHANGED <<curr_job, jobs_run, watchdog_work, wd_job, hw_job,
                   reg_irq_dis, reg_dec_e, pm_usage, fin_count, outcome,
                   path_fin, oops, run_failed>>

\* rkvdec2_irq_handler(), from cancel_delayed_work() on: whoever cancels the
\* watchdog finishes the job.  rkvdec2_job_finish(NULL, ..) dereferences
\* ctx->dev: the interrupt thread dies before it puts the PM reference or
\* reports anything.
rkvdec2_irq_handler_cancel ==
    /\ irq_pc = "cancel"
    /\ last' = "irq_cancel"
    /\ UNCHANGED <<jobs_run, wd_job, hw_job, irq_line, irq_ctx, irq_status, irq_state,
                   irq_job, reg_sta_int, reg_irq_dis, reg_dec_e, iommu_restored,
                   run_failed>>
    /\ IF cancel_delayed_work
       THEN /\ watchdog_work' = "idle"
            /\ IF irq_ctx = NULL
               THEN /\ oops' = TRUE
                    /\ irq_pc' = "dead"
                    /\ ret' = "OOPS"
                    /\ UNCHANGED <<curr_job, pm_usage, fin_count, outcome, path_fin>>
               ELSE /\ rkvdec2_job_finish(curr_job, irq_state, pm_usage)
                    /\ path_fin' = [path_fin EXCEPT ![irq_job] = @ \cup {"irq"}]
                    /\ irq_pc' = "idle"
                    /\ ret' = "FINISH"
                    /\ UNCHANGED oops
       ELSE /\ irq_pc' = "idle"
            /\ ret' = "NOOP"
            /\ UNCHANGED <<watchdog_work, curr_job, pm_usage, fin_count,
                           outcome, path_fin, oops>>

\* the watchdog delay expires and the worker starts the callback: from here
\* on the work is no longer pending and cannot be cancelled
watchdog_fire ==
    /\ watchdog_work = "pending"
    /\ watchdog_work' = "running"
    /\ last' = "watchdog_fire"
    /\ ret' = "OK"
    /\ UNCHANGED <<curr_job, jobs_run, wd_job, hw_job, irq_line, irq_pc,
                   irq_ctx, irq_status, irq_state, irq_job, reg_sta_int, reg_irq_dis,
                   reg_dec_e, pm_usage, fin_count, outcome, path_fin, oops,
                   iommu_restored, run_failed>>

\* variant: the job is finished without the two register writes
watchdog_quiesce_none == UNCHANGED <<reg_irq_dis, reg_dec_e, hw_job>>

\* rkvdec2_watchdog_func(): RKVDEC2_REG_DEC_IRQ_DISABLE is written to
\* RKVDEC2_REG_IMPORTANT_EN and 0 to RKVDEC2_REG_DEC_E, which halts the engine
watchdog_quiesce ==
    /\ reg_irq_dis' = TRUE
    /\ reg_dec_e' = FALSE
    /\ hw_job' = NoJob

\* rkvdec2_watchdog_func()
rkvdec2_watchdog_func ==
    /\ watchdog_work = "running"
    /\ watchdog_work' = "idle"
    /\ last' = "watchdog_func"
    /\ UNCHANGED <<jobs_run, wd_job, irq_line, irq_pc, irq_ctx, irq_status, irq_state,
                   irq_job, reg_sta_int, oops, iommu_restored, run_failed>>
    /\ IF v4l2_m2m_get_curr_priv # NULL
       THEN /\ watchdog_quiesce
            /\ rkvdec2_job_finish(curr_job, VB2_BUF_STATE_ERROR, pm_usage)
            /\ path_fin' = [path_fin EXCEPT ![wd_job] = @ \cup {"watchdog"}]
            /\ ret' = "FINISH"
       ELSE /\ ret' = "NOOP"
            /\ UNCHANGED <<reg_irq_dis, reg_dec_e, hw_job, curr_job, pm_usage,
                           fin_count, outcome, path_fin>>

----------------------------------------------------------------------------
(* Scratch (RCB) buffer allocator *)

RKVDEC2_RCB_COUNT == 10
PIC_WIDTH == 0
PIC_HEIGHT == 1
RKVDEC2_ALLOC_SRAM == "SRAM"
RKVDEC2_ALLOC_DMA == "DMA"
ENOMEM == "ENOMEM"
EBUSY == "EBUSY"
EINVAL == "EINVAL"
RcbKinds == 0..(RKVDEC2_RCB_COUNT - 1)

\* rcb_sizes[], kind n at position n + 1
rcb_sizes == <<
    [multiplier |-> 6,  axis |-> PIC_WIDTH],
    [multiplier |-> 1,  axis |-> PIC_WIDTH],
    [multiplier |-> 1,  axis |-> PIC_HEIGHT],
    [multiplier |-> 3,  axis |-> PIC_WIDTH],
    [multiplier |-> 6,  axis |-> PIC_WIDTH],
    [multiplier |-> 3,  axis |-> PIC_HEIGHT],
    [multiplier |-> 22, axis |-> PIC_WIDTH],
    [multiplier |-> 6,  axis |-> PIC_WIDTH],
    [multiplier |-> 11, axis |-> PIC_WIDTH],
    [multiplier |-> 67, axis |-> PIC_HEIGHT] >>

RCB_SIZE(n, w, h) ==
    rcb_sizes[n + 1].multiplier * (IF rcb_sizes[n + 1].axis # 0 THEN h ELSE w)

\* no rounding
ALIGN_none(x, a) == x

\* ALIGN(x, a) for a power of two a
ALIGN(x, a) == ((x + a - 1) \div a) * a

\* a record of a zeroed session; the type of a zeroed record is never read
ZeroRcb == [cpu |-> NULL, size |-> 0, type |-> "ZERO"]

\* pages of the pool that a buffer of `size` bytes at page `cpu` covers: the
\* driver asks the pool for 4096-aligned buffers only
SramRange(cpu, size) == cpu..(cpu + ((size + 4095) \div 4096) - 1)

Min(S) == CHOOSE x \in S : \A y \in S : x <= y

\* gen_pool_dma_zalloc_align(pool, size, .., 0x1000): first fit, NULL when
\* no run of free pages is long enough
gen_pool_dma_zalloc_align(used, size) ==
    LET n == (size + 4095) \div 4096
        fits == {a \in 1..SramPages :
                    /\ a + n - 1 <= SramPages
                    /\ \A q \in a..(a + n - 1) : q \notin used}
    IN IF fits = {} THEN NULL ELSE Min(fits)

\* dma_alloc_coherent(): NULL when memory is exhausted
dma_alloc_coherent(live) ==
    LET free == (1..DmaSlots) \ live
    IN IF free = {} THEN NULL ELSE Min(free)

\* the memory collaborators as one value, with the log of the running call
MemState == [used |-> sram_used, dma |-> dma_live, mapped |-> iommu_mapped,
             oops |-> unmap_oops, allocated |-> <<>>, released |-> <<>>,
             pool0 |-> pool_at_start]

\* what a call iommu_unmap(rkvdec->iommu_domain, ..) that returns meets: no
\* domain (the stub), a range that is mapped, or one that is not
iommu_unmap(mapped, range) ==
    IF ~iommu_domain THEN "no_domain"
    ELSE IF range \subseteq mapped THEN "mapped" ELSE "not_mapped"

\* rkvdec2_free_rcb(): the loop from record i on.  The records themselves
\* are left as they are.  With unmap_faults, iommu_unmap() on a NULL domain
\* faults and the caller dies there; otherwise it is the empty stub.
RECURSIVE free_rcb_loop(_, _, _, _)
free_rcb_loop(bufs, st, i, unmap_faults) ==
    IF i = RKVDEC2_RCB_COUNT THEN st
    ELSE IF bufs[i].cpu = NULL THEN free_rcb_loop(bufs, st, i + 1, unmap_faults)
    ELSE IF bufs[i].type = RKVDEC2_ALLOC_SRAM
    THEN IF ~iommu_domain /\ unmap_faults
         THEN [st EXCEPT !.oops = TRUE]
         ELSE LET range == SramRange(bufs[i].cpu, bufs[i].size) IN
              free_rcb_loop(bufs,
                  [st EXCEPT !.mapped = @ \ range,
                             !.used = @ \ range,
                             !.released = Append(@, [type |-> RKVDEC2_ALLOC_SRAM,
                                                     cpu |-> bufs[i].cpu,
                                                     live |-> range \subseteq st.used,
                                                     unmap |-> iommu_unmap(st.mapped, range)])],
                  i + 1, unmap_faults)
    ELSE free_rcb_loop(bufs,
             [st EXCEPT !.dma = @ \ {bufs[i].cpu},
                        !.released = Append(@, [type |-> RKVDEC2_ALLOC_DMA,
                                                cpu |-> bufs[i].cpu,
                                                live |-> bufs[i].cpu \in st.dma,
                                                unmap |-> "none"])],
             i + 1, unmap_faults)

rkvdec2_free_rcb(bufs, st, unmap_faults) == free_rcb_loop(bufs, st, 0, unmap_faults)

\* rkvdec2_allocate_rcb(): the loop from record i on.  map_fail: the kinds
\* for which iommu_map() fails; dma_fail: the kind for which
\* dma_alloc_coherent() fails (RKVDEC2_RCB_COUNT: none, unless exhausted).
RECURSIVE allocate_rcb_loop(_, _, _, _, _, _, _, _)
allocate_rcb_loop(bufs, st, i, w, h, map_fail, dma_fail, unmap_faults) ==
    IF i = RKVDEC2_RCB_COUNT THEN [bufs |-> bufs, st |-> st, ret |-> "OK"]
    ELSE
    LET raw == RCB_SIZE(i, w, h)
        sram_size == IF iommu_domain THEN ALIGN(raw, 4096) ELSE raw
        pool_cpu == IF sram_pool THEN gen_pool_dma_zalloc_align(st.used, sram_size)
                    ELSE NULL
        \* iommu_map() failed: the pool buffer is given back
        sram_cpu == IF pool_cpu # NULL /\ iommu_domain /\ i \in map_fail
                    THEN NULL ELSE pool_cpu
        dma_cpu == IF i = dma_fail THEN NULL ELSE dma_alloc_coherent(st.dma)
    IN
    IF sram_cpu # NULL
    THEN LET range == SramRange(sram_cpu, sram_size)
             rec == [cpu |-> sram_cpu, size |-> sram_size, type |-> RKVDEC2_ALLOC_SRAM]
         IN allocate_rcb_loop([bufs EXCEPT ![i] = rec],
                [st EXCEPT !.used = @ \cup range,
                           !.mapped = IF iommu_domain THEN @ \cup range ELSE @,
                           !.allocated = Append(@, [type |-> RKVDEC2_ALLOC_SRAM,
                                                    cpu |-> sram_cpu])],
                i + 1, w, h, map_fail, dma_fail, unmap_faults)
    ELSE IF dma_cpu # NULL
    THEN LET rec == [cpu |-> dma_cpu, size |-> raw, type |-> RKVDEC2_ALLOC_DMA]
         IN allocate_rcb_loop([bufs EXCEPT ![i] = rec],
                [st EXCEPT !.dma = @ \cup {dma_cpu},
                           !.allocated = Append(@, [type |-> RKVDEC2_ALLOC_DMA,
                                                    cpu |-> dma_cpu])],
                i + 1, w, h, map_fail, dma_fail, unmap_faults)
    ELSE \* err_alloc
         [bufs |-> bufs, st |-> rkvdec2_free_rcb(bufs, st, unmap_faults), ret |-> ENOMEM]

\* memset(ctx->rcb_bufs, 0, sizeof(*ctx->rcb_bufs)) clears one record, the first
rkvdec2_allocate_rcb(bufs, st, w, h, map_fail, dma_fail, unmap_faults) ==
    allocate_rcb_loop([bufs EXCEPT ![0] = ZeroRcb], st, 0, w, h,
                      map_fail, dma_fail, unmap_faults)

\* what an operation leaves in the session and the memory collaborators
SetRcb(bufs, st) ==
    /\ rcb_bufs' = bufs
    /\ sram_used' = st.used
    /\ dma_live' = st.dma
    /\ iommu_mapped' = st.mapped
    /\ unmap_oops' = st.oops
    /\ rcb_allocated' = st.allocated
    /\ rcb_released' = st.released
    /\ pool_at_start' = st.pool0

\* an operation that does not touch the scratch buffers
NoRcb == SetRcb(rcb_bufs, MemState)

\* an operation that is no queue operation: the ready queues stay
NoBufOp == UNCHANGED <<src_bufs, dst_bufs>> /\ op_trace' = <<>>

----------------------------------------------------------------------------
(* vb2 queues of the session *)

\* VIDIOC_REQBUFS on the OUTPUT (is_out) or CAPTURE queue: refused while the
\* queue streams; count buffers are allocated, 0 frees them
vb2_reqbufs(is_out, count) ==
    /\ ~unmap_oops
    /\ IF is_out THEN ~out_streaming ELSE ~cap_streaming
    /\ out_busy' = IF is_out THEN count > 0 ELSE out_busy
    /\ cap_busy' = IF is_out THEN cap_busy ELSE count > 0
    /\ last' = "reqbufs"
    /\ arg_pix' = "-"
    /\ arg_ctrl' = NoCtrl
    /\ arg_planes' = NoPlanes
    /\ arg_fsize' = NoFsize
    /\ ret' = "OK"
    /\ NoRcb
    /\ NoBufOp
    /\ UNCHANGED <<fmtVars, out_streaming, cap_streaming>>

\* an entry of op_trace: a call made by the operation
Call(name) == [ev |-> name, dir |-> "-", buf |-> 0, state |-> "-"]

\* desc->ops->start(): start_ok is its result
ops_start(start_ok) == start_ok

\* rkvdec2_queue_cleanup(): every buffer of the queue's ready list is removed
\* in order; its control request, if any, is completed, then the buffer is
\* returned in `state`.  The calls made, in order.
RECURSIVE queue_cleanup_loop(_, _, _, _)
queue_cleanup_loop(dir, bufs, i, state) ==
    IF i > Len(bufs) THEN <<>>
    ELSE (IF bufs[i]
          THEN <<[ev |-> "request_complete", dir |-> dir, buf |-> i, state |-> "-"]>>
          ELSE <<>>)
         \o <<[ev |-> "buf_done", dir |-> dir, buf |-> i, state |-> state]>>
         \o queue_cleanup_loop(dir, bufs, i + 1, state)

rkvdec2_queue_cleanup(dir, bufs, state) == queue_cleanup_loop(dir, bufs, 1, state)

\* rkvdec2_buf_queue(): vb2 hands a buffer of a streaming queue to the
\* driver, which puts it on the m2m ready queue; req: a request is attached
\* (requests exist on the OUTPUT queue only)
rkvdec2_buf_queue(is_out, req) ==
    /\ ~unmap_oops
    /\ IF is_out THEN out_streaming /\ Len(src_bufs) < MaxBufs
                 ELSE cap_streaming /\ Len(dst_bufs) < MaxBufs
    /\ is_out \/ ~req
    /\ src_bufs' = IF is_out THEN Append(src_bufs, req) ELSE src_bufs
    /\ dst_bufs' = IF is_out THEN dst_bufs ELSE Append(dst_bufs, req)
    /\ op_trace' = <<>>
    /\ last' = "buf_queue"
    /\ arg_pix' = "-"
    /\ arg_ctrl' = NoCtrl
    /\ arg_planes' = NoPlanes
    /\ arg_fsize' = NoFsize
    /\ ret' = "OK"
    /\ NoRcb
    /\ UNCHANGED <<fmtVars, queueVars>>

\* VIDIOC_STREAMON -> rkvdec2_start_streaming(); start_ok: the result of the
\* codec's start hook
rkvdec2_start_streaming(is_out, map_fail, dma_fail, start_ok, unmap_faults) ==
    /\ ~unmap_oops
    /\ IF is_out THEN out_busy /\ ~out_streaming ELSE cap_busy /\ ~cap_streaming
    /\ last' = IF is_out THEN "start_streaming_out" ELSE "start_streaming_cap"
    /\ arg_pix' = "-"
    /\ arg_ctrl' = NoCtrl
    /\ arg_planes' = NoPlanes
    /\ arg_fsize' = NoFsize
    /\ UNCHANGED <<fmtVars, out_busy, cap_busy>>
    /\ UNCHANGED <<src_bufs, dst_bufs>>
    /\ IF ~is_out
       THEN /\ cap_streaming' = TRUE
            /\ ret' = "OK"
            /\ NoRcb
            /\ op_trace' = <<>>
            /\ UNCHANGED out_streaming
       ELSE \E a \in {rkvdec2_allocate_rcb(rcb_bufs,
                                           [MemState EXCEPT !.pool0 = sram_used],
                                           decoded_fmt.width,
                                           decoded_fmt.height, map_fail, dma_fail,
                                           unmap_faults)} :
               /\ UNCHANGED cap_streaming
               /\ IF a.ret # "OK"
                  THEN /\ ret' = IF a.st.oops THEN "OOPS" ELSE a.ret
                       /\ out_streaming' = FALSE
                       /\ SetRcb(a.bufs, a.st)
                       /\ op_trace' = <<Call("allocate_rcb")>>
                  ELSE IF ~ops_start(start_ok)
                  THEN \E st \in {rkvdec2_free_rcb(a.bufs, a.st, unmap_faults)} :
                          /\ ret' = IF st.oops THEN "OOPS" ELSE "ESTART"
                          /\ out_streaming' = FALSE
                          /\ SetRcb(a.bufs, st)
                          /\ op_trace' = <<Call("allocate_rcb"), Call("ops_start"),
                                           Call("free_rcb")>>
                  ELSE /\ ret' = "OK"
                       /\ out_streaming' = TRUE
                       /\ SetRcb(a.bufs, a.st)
                       /\ op_trace' = <<Call("allocate_rcb"), Call("ops_start")>>

\* VIDIOC_STREAMOFF -> rkvdec2_stop_streaming()
rkvdec2_stop_streaming(is_out, unmap_faults) ==
    /\ ~unmap_oops
    /\ IF is_out THEN out_streaming ELSE cap_streaming
    /\ last' = IF is_out THEN "stop_streaming_out" ELSE "stop_streaming_cap"
    /\ arg_pix' = "-"
    /\ arg_ctrl' = NoCtrl
    /\ arg_planes' = NoPlanes
    /\ arg_fsize' = NoFsize
    /\ UNCHANGED <<fmtVars, out_busy, cap_busy>>
    /\ IF is_out
       THEN \E st \in {rkvdec2_free_rcb(rcb_bufs, MemState, unmap_faults)} :
               /\ out_streaming' = st.oops
               /\ ret' = IF st.oops THEN "OOPS" ELSE "OK"
               /\ SetRcb(rcb_bufs, st)
               /\ UNCHANGED <<cap_streaming, dst_bufs>>
               /\ IF st.oops
                  THEN /\ op_trace' = <<Call("ops_stop"), Call("free_rcb")>>
                       /\ UNCHANGED src_bufs
                  ELSE /\ op_trace' = <<Call("ops_stop"), Call("free_rcb")>>
                                      \o rkvdec2_queue_cleanup("src", src_bufs,
                                                               VB2_BUF_STATE_ERROR)
                       /\ src_bufs' = <<>>
       ELSE /\ cap_streaming' = FALSE
            /\ ret' = "OK"
            /\ NoRcb
            /\ op_trace' = rkvdec2_queue_cleanup("dst", dst_bufs, VB2_BUF_STATE_ERROR)
            /\ dst_bufs' = <<>>
            /\ UNCHANGED <<out_streaming, src_bufs>>

----------------------------------------------------------------------------
(* Format and capability registry *)

RKVDEC2_IMG_FMT_ANY == "ANY"
RKVDEC2_IMG_FMT_420_8BIT == "420_8BIT"
RKVDEC2_IMG_FMT_420_10BIT == "420_10BIT"
RKVDEC2_IMG_FMT_422_8BIT == "422_8BIT"
RKVDEC2_IMG_FMT_422_10BIT == "422_10BIT"
ImageFmts == {RKVDEC2_IMG_FMT_ANY, RKVDEC2_IMG_FMT_420_8BIT, RKVDEC2_IMG_FMT_420_10BIT,
              RKVDEC2_IMG_FMT_422_8BIT, RKVDEC2_IMG_FMT_422_10BIT}

V4L2_PIX_FMT_H264_SLICE == "H264_SLICE"
V4L2_FRMSIZE_TYPE_CONTINUOUS == "CONTINUOUS"
\* "no format": the 0 that rkvdec2_enum_decoded_fmt returns past the end
NoFourcc == "0"

rkvdec2_h264_decoded_fmts == <<
    [fourcc |-> "NV12", image_fmt |-> RKVDEC2_IMG_FMT_420_8BIT],
    [fourcc |-> "NV15", image_fmt |-> RKVDEC2_IMG_FMT_420_10BIT],
    [fourcc |-> "NV16", image_fmt |-> RKVDEC2_IMG_FMT_422_8BIT],
    [fourcc |-> "NV20", image_fmt |-> RKVDEC2_IMG_FMT_422_10BIT] >>

rkvdec2_coded_fmts == <<
    [fourcc |-> V4L2_PIX_FMT_H264_SLICE,
     frmsize |-> [min_width |-> 64, max_width |-> 65520, step_width |-> 64,
                  min_height |-> 16, max_height |-> 65520, step_height |-> 16],
     decoded_fmts |-> rkvdec2_h264_decoded_fmts] >>

rkvdec2_image_fmt_match(fmt1, fmt2) ==
    fmt1 = fmt2 \/ fmt2 = RKVDEC2_IMG_FMT_ANY \/ fmt1 = RKVDEC2_IMG_FMT_ANY

\* rkvdec2_enum_decoded_fmt(): the index-th (from 0) decoded format of the
\* descriptor that matches img, in table order
RECURSIVE enum_decoded_fmt_loop(_, _, _, _, _)
enum_decoded_fmt_loop(fmts, i, fmt_idx, index, img) ==
    IF i > Len(fmts) THEN NoFourcc
    ELSE IF ~rkvdec2_image_fmt_match(fmts[i].image_fmt, img)
    THEN enum_decoded_fmt_loop(fmts, i + 1, fmt_idx, index, img)
    ELSE IF index = fmt_idx + 1 THEN fmts[i].fourcc
    ELSE enum_decoded_fmt_loop(fmts, i + 1, fmt_idx + 1, index, img)

rkvdec2_enum_decoded_fmt(desc, index, img) ==
    enum_decoded_fmt_loop(rkvdec2_coded_fmts[desc].decoded_fmts, 1, -1, index, img)

rkvdec2_is_valid_fmt(desc, fourcc, img) ==
    \E i \in 1..Len(rkvdec2_coded_fmts[desc].decoded_fmts) :
        /\ rkvdec2_image_fmt_match(rkvdec2_coded_fmts[desc].decoded_fmts[i].image_fmt, img)
        /\ rkvdec2_coded_fmts[desc].decoded_fmts[i].fourcc = fourcc

\* rkvdec2_find_coded_fmt_desc(): index of the descriptor, NULL if none
rkvdec2_find_coded_fmt_desc(fourcc) ==
    LET hits == {i \in 1..Len(rkvdec2_coded_fmts) : rkvdec2_coded_fmts[i].fourcc = fourcc}
    IN IF hits = {} THEN NULL ELSE Min(hits)

\* clamp_roundup() of v4l2-common: clamp, then round up to the step
clamp_roundup(x, min, max, alignment) ==
    LET c == IF x < min THEN min ELSE IF x > max THEN max ELSE x
    IN IF alignment # 0 THEN ALIGN(c, alignment) ELSE c

\* v4l2_apply_frmsize_constraints()
v4l2_apply_frmsize_constraints(f, frmsize) ==
    [f EXCEPT !.width = clamp_roundup(@, frmsize.min_width, frmsize.max_width,
                                      frmsize.step_width),
              !.height = clamp_roundup(@, frmsize.min_height, frmsize.max_height,
                                       frmsize.step_height)]

\* rkvdec2_reset_fmt()
rkvdec2_reset_fmt(fourcc) ==
    [pixelformat |-> fourcc, width |-> 0, height |-> 0,
     colorspace |-> "REC709", xfer_func |-> "DEFAULT",
     ycbcr_enc |-> "DEFAULT", quantization |-> "DEFAULT"]

\* rkvdec2_reset_coded_fmt(): the coded format of a new session
rkvdec2_reset_coded_fmt ==
    [rkvdec2_reset_fmt(rkvdec2_coded_fmts[1].fourcc) EXCEPT
        !.width = rkvdec2_coded_fmts[1].frmsize.min_width,
        !.height = rkvdec2_coded_fmts[1].frmsize.min_height]

\* variant: the first decoded format of the descriptor, whatever the image kind
rkvdec2_reset_decoded_fmt_any(desc, img, coded) ==
    [rkvdec2_reset_fmt(rkvdec2_enum_decoded_fmt(desc, 0, RKVDEC2_IMG_FMT_ANY)) EXCEPT
        !.width = coded.width,
        !.height = coded.height]

\* rkvdec2_reset_decoded_fmt(): from descriptor desc, image kind img and
\* the coded format coded
rkvdec2_reset_decoded_fmt(desc, img, coded) ==
    [rkvdec2_reset_fmt(rkvdec2_enum_decoded_fmt(desc, 0, img)) EXCEPT
        !.width = coded.width,
        !.height = coded.height]

\* v4l2_fill_pixfmt_mp() for the single-plane NV formats: bytes of the image
v4l2_fill_pixfmt_mp(pixelformat, width, height) ==
    CASE pixelformat = "NV12" -> (width * height * 3) \div 2
      [] pixelformat = "NV15" -> (width * height * 15) \div 8
      [] pixelformat = "NV16" -> width * height * 2
      [] pixelformat = "NV20" -> (width * height * 5) \div 2
      [] OTHER -> 0

DIV_ROUND_UP(n, d) == (n + d - 1) \div d

\* rkvdec2_fill_decoded_pixfmt(): plane_fmt[] of a decoded format, one plane
\* with the image followed by the per-macroblock area
rkvdec2_fill_decoded_pixfmt(f) ==
    << v4l2_fill_pixfmt_mp(f.pixelformat, f.width, f.height)
       + 128 * DIV_ROUND_UP(f.width, 16) * DIV_ROUND_UP(f.height, 16) >>

\* desc->ops->adjust_fmt() of the H.264 codec: plane_fmt[] of a coded format,
\* one plane (num_planes = 1) sized for the picture
adjust_fmt(f) == << f.width * f.height * 2 >>

----------------------------------------------------------------------------
(* Format and control negotiation *)

\* variant: the requested pixel format is kept whatever it is
rkvdec2_try_capture_fmt_any_pix(f) ==
    v4l2_apply_frmsize_constraints(
        [f EXCEPT !.width = IF @ > coded_fmt.width THEN @ ELSE coded_fmt.width,
                  !.height = IF @ > coded_fmt.height THEN @ ELSE coded_fmt.height],
        rkvdec2_coded_fmts[coded_fmt_desc].frmsize)

\* rkvdec2_try_capture_fmt()
rkvdec2_try_capture_fmt(f) ==
    LET pix == IF ~rkvdec2_is_valid_fmt(coded_fmt_desc, f.pixelformat, image_fmt)
               THEN rkvdec2_enum_decoded_fmt(coded_fmt_desc, 0, image_fmt)
               ELSE f.pixelformat
        w == IF f.width > coded_fmt.width THEN f.width ELSE coded_fmt.width
        h == IF f.height > coded_fmt.height THEN f.height ELSE coded_fmt.height
    IN v4l2_apply_frmsize_constraints(
           [f EXCEPT !.pixelformat = pix, !.width = w, !.height = h],
           rkvdec2_coded_fmts[coded_fmt_desc].frmsize)

\* rkvdec2_try_output_fmt()
rkvdec2_try_output_fmt(f) ==
    LET found == rkvdec2_find_coded_fmt_desc(f.pixelformat)
        desc == IF found = NULL THEN 1 ELSE found
    IN v4l2_apply_frmsize_constraints(
           [f EXCEPT !.pixelformat = rkvdec2_coded_fmts[desc].fourcc],
           rkvdec2_coded_fmts[desc].frmsize)

\* variant: the busy check is skipped
rkvdec2_s_capture_fmt_no_busy(f) ==
    /\ ~unmap_oops
    /\ last' = "s_capture_fmt"
    /\ arg_pix' = f.pixelformat
    /\ arg_ctrl' = NoCtrl
    /\ arg_planes' = NoPlanes
    /\ arg_fsize' = NoFsize
    /\ NoRcb
    /\ NoBufOp
    /\ UNCHANGED <<queueVars, coded_fmt, coded_fmt_desc, image_fmt>>
    /\ ret' = "OK"
    /\ decoded_fmt' = rkvdec2_try_capture_fmt(f)

\* rkvdec2_s_capture_fmt()
rkvdec2_s_capture_fmt(f) ==
    /\ ~unmap_oops
    /\ last' = "s_capture_fmt"
    /\ arg_pix' = f.pixelformat
    /\ arg_ctrl' = NoCtrl
    /\ arg_planes' = NoPlanes
    /\ arg_fsize' = NoFsize
    /\ NoRcb
    /\ NoBufOp
    /\ UNCHANGED <<queueVars, coded_fmt, coded_fmt_desc, image_fmt>>
    /\ IF cap_busy
       THEN /\ ret' = EBUSY
            /\ UNCHANGED decoded_fmt
       ELSE /\ ret' = "OK"
            /\ decoded_fmt' = rkvdec2_try_capture_fmt(f)

\* variant: the peer (CAPTURE) queue is not looked at
s_output_fmt_busy_no_peer(f) ==
    \/ out_streaming
    \/ (out_busy /\ f.pixelformat # coded_fmt.pixelformat)

\* rkvdec2_s_output_fmt(): the two -EBUSY checks
s_output_fmt_busy(f) ==
    \/ out_streaming
    \/ (out_busy /\ f.pixelformat # coded_fmt.pixelformat)
    \/ cap_busy

\* variant: the colorimetry of the reset decoded format is kept
propagate_colorimetry_none(d, g) == d

\* rkvdec2_s_output_fmt(): "Propagate colorspace information to capture"
propagate_colorimetry(d, g) ==
    [d EXCEPT !.colorspace = g.colorspace,
              !.xfer_func = g.xfer_func,
              !.ycbcr_enc = g.ycbcr_enc,
              !.quantization = g.quantization]

\* rkvdec2_s_output_fmt()
rkvdec2_s_output_fmt(f) ==
    /\ ~unmap_oops
    /\ last' = "s_output_fmt"
    /\ arg_pix' = f.pixelformat
    /\ arg_ctrl' = NoCtrl
    /\ arg_planes' = NoPlanes
    /\ arg_fsize' = NoFsize
    /\ NoRcb
    /\ NoBufOp
    /\ UNCHANGED <<queueVars, image_fmt>>
    /\ IF s_output_fmt_busy(f)
       THEN /\ ret' = EBUSY
            /\ UNCHANGED <<coded_fmt, coded_fmt_desc, decoded_fmt>>
       ELSE LET g == rkvdec2_try_output_fmt(f)
                desc == rkvdec2_find_coded_fmt_desc(g.pixelformat)
            IN IF desc = NULL
               THEN /\ ret' = EINVAL
                    /\ UNCHANGED <<coded_fmt, coded_fmt_desc, decoded_fmt>>
               ELSE /\ ret' = "OK"
                    /\ coded_fmt_desc' = desc
                    /\ coded_fmt' = g
                    /\ decoded_fmt' =
                           propagate_colorimetry(
                               rkvdec2_reset_decoded_fmt(desc, image_fmt, g), g)

\* variant: the CAPTURE queue is not looked at
rkvdec2_try_ctrl_no_busy(hook_ok, img) ==
    IF ~hook_ok THEN EINVAL ELSE "OK"

\* rkvdec2_try_ctrl(): hook_ok is the result of the codec's try_ctrl hook,
\* img the image kind its get_image_fmt hook derives from the control
rkvdec2_try_ctrl(hook_ok, img) ==
    IF ~hook_ok THEN EINVAL
    ELSE IF image_fmt = img THEN "OK"
    ELSE IF rkvdec2_is_valid_fmt(coded_fmt_desc, decoded_fmt.pixelformat, img) THEN "OK"
    ELSE IF cap_busy THEN EINVAL
    ELSE "OK"

\* VIDIOC_TRY_EXT_CTRLS: validation only
try_ext_ctrls(hook_ok, img) ==
    /\ ~unmap_oops
    /\ last' = "try_ctrl"
    /\ arg_pix' = "-"
    /\ arg_ctrl' = [hook_ok |-> hook_ok, img |-> img]
    /\ arg_planes' = NoPlanes
    /\ arg_fsize' = NoFsize
    /\ ret' = rkvdec2_try_ctrl(hook_ok, img)
    /\ NoRcb
    /\ NoBufOp
    /\ UNCHANGED <<queueVars, fmtVars>>

\* variant: the decoded format is reset whenever the image kind changes
rkvdec2_s_ctrl_always_reset(img) ==
    IF image_fmt = img
    THEN UNCHANGED <<image_fmt, decoded_fmt>>
    ELSE /\ image_fmt' = img
         /\ decoded_fmt' = rkvdec2_reset_decoded_fmt(coded_fmt_desc, img, coded_fmt)

\* variant: the image kind is taken over, the decoded format is never reset
rkvdec2_s_ctrl_no_reset(img) ==
    /\ image_fmt' = img
    /\ UNCHANGED decoded_fmt

\* rkvdec2_s_ctrl(): the session after the control is applied
rkvdec2_s_ctrl(img) ==
    IF image_fmt = img
    THEN UNCHANGED <<image_fmt, decoded_fmt>>
    ELSE /\ image_fmt' = img
         /\ decoded_fmt' =
                IF ~rkvdec2_is_valid_fmt(coded_fmt_desc, decoded_fmt.pixelformat, img)
                THEN rkvdec2_reset_decoded_fmt(coded_fmt_desc, img, coded_fmt)
                ELSE decoded_fmt

\* VIDIOC_S_EXT_CTRLS: the control framework validates with try_ctrl and
\* applies with s_ctrl only what passed
s_ext_ctrls(hook_ok, img) ==
    /\ ~unmap_oops
    /\ last' = "s_ctrl"
    /\ arg_pix' = "-"
    /\ arg_ctrl' = [hook_ok |-> hook_ok, img |-> img]
    /\ arg_planes' = NoPlanes
    /\ arg_fsize' = NoFsize
    /\ ret' = rkvdec2_try_ctrl(hook_ok, img)
    /\ NoRcb
    /\ NoBufOp
    /\ UNCHANGED <<queueVars, coded_fmt, coded_fmt_desc>>
    /\ IF rkvdec2_try_ctrl(hook_ok, img) = "OK"
       THEN rkvdec2_s_ctrl(img)
       ELSE UNCHANGED <<image_fmt, decoded_fmt>>

\* variant: the index is not looked at
rkvdec2_enum_framesizes_any_index(index, pixel_format) ==
    LET desc == rkvdec2_find_coded_fmt_desc(pixel_format)
    IN IF desc = NULL
       THEN [ret |-> EINVAL, type |-> "-", stepwise |-> NoStepwise]
       ELSE [ret |-> "OK", type |-> V4L2_FRMSIZE_TYPE_CONTINUOUS,
             stepwise |-> [min_width |-> 1, min_height |-> 1,
                           step_width |-> 1, step_height |-> 1,
                           max_width |-> rkvdec2_coded_fmts[desc].frmsize.max_width,
                           max_height |-> rkvdec2_coded_fmts[desc].frmsize.max_height]]

\* rkvdec2_enum_framesizes(): the return value and what is written to fsize
rkvdec2_enum_framesizes(index, pixel_format) ==
    LET desc == rkvdec2_find_coded_fmt_desc(pixel_format)
    IN IF index # 0
       THEN [ret |-> EINVAL, type |-> "-", stepwise |-> NoStepwise]
       ELSE IF desc = NULL
       THEN [ret |-> EINVAL, type |-> "-", stepwise |-> NoStepwise]
       ELSE [ret |-> "OK", type |-> V4L2_FRMSIZE_TYPE_CONTINUOUS,
             stepwise |-> [min_width |-> 1, min_height |-> 1,
                           step_width |-> 1, step_height |-> 1,
                           max_width |-> rkvdec2_coded_fmts[desc].frmsize.max_width,
                           max_height |-> rkvdec2_coded_fmts[desc].frmsize.max_height]]

\* VIDIOC_ENUM_FRAMESIZES
vidioc_enum_framesizes(index, pixel_format) ==
    /\ ~unmap_oops
    /\ last' = "enum_framesizes"
    /\ \E r \in {rkvdec2_enum_framesizes(index, pixel_format)} :
           /\ ret' = r.ret
           /\ arg_fsize' = [index |-> index, pixel_format |-> pixel_format,
                            type |-> r.type, stepwise |-> r.stepwise]
    /\ arg_pix' = "-"
    /\ arg_ctrl' = NoCtrl
    /\ arg_planes' = NoPlanes
    /\ NoRcb
    /\ NoBufOp
    /\ UNCHANGED <<fmtVars, queueVars>>

----------------------------------------------------------------------------
(* Buffer geometry of the queues *)

\* variant: the caller's plane sizes are not looked at
rkvdec2_queue_setup_no_sizes(is_out, num_planes, sizes) ==
    LET f == IF is_out THEN adjust_fmt(coded_fmt)
             ELSE rkvdec2_fill_decoded_pixfmt(decoded_fmt)
    IN IF num_planes # 0
       THEN [ret |-> IF num_planes # Len(f) THEN EINVAL ELSE "OK",
             num_planes |-> num_planes, sizes |-> sizes]
       ELSE [ret |-> "OK", num_planes |-> Len(f), sizes |-> f]

\* rkvdec2_queue_setup(): f is plane_fmt[] of the direction's format, its
\* length is num_planes of the format
rkvdec2_queue_setup(is_out, num_planes, sizes) ==
    LET f == IF is_out THEN adjust_fmt(coded_fmt)
             ELSE rkvdec2_fill_decoded_pixfmt(decoded_fmt)
    IN IF num_planes # 0
       THEN IF num_planes # Len(f)
            THEN [ret |-> EINVAL, num_planes |-> num_planes, sizes |-> sizes]
            ELSE IF \E i \in 1..Len(f) : sizes[i] < f[i]
            THEN [ret |-> EINVAL, num_planes |-> num_planes, sizes |-> sizes]
            ELSE [ret |-> "OK", num_planes |-> num_planes, sizes |-> sizes]
       ELSE [ret |-> "OK", num_planes |-> Len(f), sizes |-> f]

\* the vb2 core calling queue_setup: VIDIOC_REQBUFS passes no planes and is
\* refused while the queue streams, VIDIOC_CREATE_BUFS passes the planes of
\* the caller's format; buffers exist afterwards when the call succeeded
vb2_create_bufs(is_out, num_planes, sizes) ==
    /\ ~unmap_oops
    /\ num_planes = 0 => IF is_out THEN ~out_streaming ELSE ~cap_streaming
    /\ \E r \in {rkvdec2_queue_setup(is_out, num_planes, sizes)} :
           /\ ret' = r.ret
           /\ arg_planes' = [is_out |-> is_out, num_planes |-> num_planes,
                             sizes |-> sizes, num_planes_out |-> r.num_planes,
                             sizes_out |-> r.sizes]
           /\ out_busy' = IF is_out /\ r.ret = "OK" THEN TRUE ELSE out_busy
           /\ cap_busy' = IF ~is_out /\ r.ret = "OK" THEN TRUE ELSE cap_busy
    /\ last' = "queue_setup"
    /\ arg_pix' = "-"
    /\ arg_ctrl' = NoCtrl
    /\ arg_fsize' = NoFsize
    /\ NoRcb
    /\ NoBufOp
    /\ UNCHANGED <<fmtVars, out_streaming, cap_streaming>>

----------------------------------------------------------------------------
InitDev ==
    /\ sram_pool \in BOOLEAN
    /\ iommu_domain \in BOOLEAN
    /\ empty_domain \in BOOLEAN
    /\ (empty_domain => iommu_domain)

InitJob ==
    /\ curr_job = NoJob
    /\ jobs_run = 0
    /\ watchdog_work = "idle"
    /\ wd_job = NoJob
    /\ hw_job = NoJob
    /\ irq_line = NoJob
    /\ irq_pc = "idle"
    /\ irq_ctx = NULL
    /\ irq_status = {}
    /\ irq_state = VB2_BUF_STATE_ERROR
    /\ irq_job = NoJob
    /\ reg_sta_int = {}
    /\ reg_irq_dis = FALSE
    /\ reg_dec_e = FALSE
    /\ pm_usage = 0
    /\ fin_count = [j \in Jobs |-> 0]
    /\ outcome = [j \in Jobs |-> "NONE"]
    /\ path_fin = [j \in Jobs |-> {}]
    /\ oops = FALSE
    /\ iommu_restored = {}
    /\ run_failed = {}

InitSess ==
    /\ coded_fmt = rkvdec2_reset_coded_fmt
    /\ coded_fmt_desc = 1
    /\ image_fmt = RKVDEC2_IMG_FMT_ANY
    /\ decoded_fmt = rkvdec2_reset_decoded_fmt(1, RKVDEC2_IMG_FMT_ANY, rkvdec2_reset_coded_fmt)
    /\ out_busy = FALSE
    /\ out_streaming = FALSE
    /\ cap_busy = FALSE
    /\ cap_streaming = FALSE
    /\ rcb_bufs = [k \in RcbKinds |-> ZeroRcb]
    /\ src_bufs = <<>>
    /\ dst_bufs = <<>>
    /\ op_trace = <<>>
    /\ sram_used = {}
    /\ dma_live = {}
    /\ iommu_mapped = {}
    /\ unmap_oops = FALSE
    /\ rcb_allocated = <<>>
    /\ rcb_released = <<>>
    /\ pool_at_start = {}
    /\ arg_pix = "-"
    /\ arg_ctrl = NoCtrl
    /\ arg_planes = NoPlanes
    /\ arg_fsize = NoFsize

InitObs ==
    /\ last = "init"
    /\ ret = "OK"

\* a probed device of any configuration with one freshly opened session
Init == InitDev /\ InitJob /\ InitSess /\ InitObs

----------------------------------------------------------------------------
(* Inputs *)

\* iommu_map() fails for no kind, for one, or for all
MapFailChoices == {{}, {2}, RcbKinds}
\* dma_alloc_coherent() fails for one kind or (RKVDEC2_RCB_COUNT) for none
DmaFailChoices == {0, 2, 9, RKVDEC2_RCB_COUNT}
\* 64x16 needs 10 pages of the pool, 512x128 needs 15
Resolutions == {<<64, 16>>, <<512, 128>>}

Colorimetries == {
    [colorspace |-> "REC709", xfer_func |-> "DEFAULT",
     ycbcr_enc |-> "DEFAULT", quantization |-> "DEFAULT"],
    [colorspace |-> "BT2020", xfer_func |-> "SMPTE2084",
     ycbcr_enc |-> "BT2020", quantization |-> "LIM_RANGE"] }
InWidths == {0, 100}
InHeights == {20}
CodedPixFmts == {V4L2_PIX_FMT_H264_SLICE, "OTHER"}
DecodedPixFmts == {"NV12", "NV15", "NV16", "NV20", "OTHER"}

\* a format as user space passes it
UserFmt(pix, w, h, c) ==
    [pixelformat |-> pix, width |-> w, height |-> h,
     colorspace |-> c.colorspace, xfer_func |-> c.xfer_func,
     ycbcr_enc |-> c.ycbcr_enc, quantization |-> c.quantization]

----------------------------------------------------------------------------
(* Job execution: a session brought to streaming, then jobs *)

JobReqBufs == \E is_out \in BOOLEAN :
    /\ IF is_out THEN ~out_busy ELSE ~cap_busy
    /\ vb2_reqbufs(is_out, 2)
    /\ UNCHANGED <<devVars, jobVars>>
JobStreamOn == \E is_out \in BOOLEAN :
    /\ rkvdec2_start_streaming(is_out, {}, RKVDEC2_RCB_COUNT, TRUE, FALSE)
    /\ UNCHANGED <<devVars, jobVars>>
DeviceRun == \E pm_ok \in BOOLEAN, run_ok \in BOOLEAN :
                 rkvdec2_device_run(pm_ok, run_ok) /\ UNCHANGED <<devVars, sessVars>>
HwComplete == \E status \in StatusValues : hw_complete(status) /\ UNCHANGED <<devVars, sessVars>>
IrqEntry == rkvdec2_irq_handler_entry /\ UNCHANGED <<devVars, sessVars>>
IrqCancel == rkvdec2_irq_handler_cancel /\ UNCHANGED <<devVars, sessVars>>
WatchdogFire == watchdog_fire /\ UNCHANGED <<devVars, sessVars>>
WatchdogFunc == rkvdec2_watchdog_func /\ UNCHANGED <<devVars, sessVars>>

NextJob == JobReqBufs \/ JobStreamOn \/ DeviceRun \/ HwComplete \/ IrqEntry
           \/ IrqCancel \/ WatchdogFire \/ WatchdogFunc

SpecJob == Init /\ [][NextJob]_vars

\* the same with the scheduling the kernel provides: a pending watchdog
\* expires unless it is cancelled, queued work and the interrupt thread run.
\* The engine itself may hang: hw_complete is not fair.
SpecJobLive ==
    /\ SpecJob
    /\ WF_vars(WatchdogFire) /\ WF_vars(WatchdogFunc)
    /\ WF_vars(IrqEntry) /\ WF_vars(IrqCancel)

----------------------------------------------------------------------------
(* Scratch buffers: start/stop cycles of the OUTPUT queue under allocation
   failures, at several resolutions *)

RcbReqBufs == \E count \in {0, 2} :
    vb2_reqbufs(TRUE, count) /\ UNCHANGED <<devVars, jobVars>>
RcbSetFmt == \E res \in Resolutions :
    /\ rkvdec2_s_output_fmt(UserFmt(V4L2_PIX_FMT_H264_SLICE, res[1], res[2],
                                    rkvdec2_reset_coded_fmt))
    /\ UNCHANGED <<devVars, jobVars>>
RcbStreamOn == \E map_fail \in MapFailChoices, dma_fail \in DmaFailChoices,
                  start_ok \in BOOLEAN, unmap_faults \in BOOLEAN :
    /\ rkvdec2_start_streaming(TRUE, map_fail, dma_fail, start_ok, unmap_faults)
    /\ UNCHANGED <<devVars, jobVars>>
RcbStreamOff == \E unmap_faults \in BOOLEAN :
    /\ rkvdec2_stop_streaming(TRUE, unmap_faults)
    /\ UNCHANGED <<devVars, jobVars>>

NextRcb == RcbReqBufs \/ RcbSetFmt \/ RcbStreamOn \/ RcbStreamOff

InitRcb ==
    /\ sram_pool \in BOOLEAN
    /\ iommu_domain \in BOOLEAN
    /\ empty_domain = iommu_domain
    /\ InitJob /\ InitSess /\ InitObs

SpecRcb == InitRcb /\ [][NextRcb]_vars

----------------------------------------------------------------------------
(* Format negotiation of one session on a device without on-chip pool *)

InitFmt ==
    /\ sram_pool = FALSE
    /\ iommu_domain = TRUE
    /\ empty_domain = TRUE
    /\ InitJob /\ InitSess /\ InitObs

FmtReqBufs == \E is_out \in BOOLEAN, count \in {0, 2} :
    vb2_reqbufs(is_out, count) /\ UNCHANGED <<devVars, jobVars>>
FmtStreamOn == \E is_out \in BOOLEAN, start_ok \in BOOLEAN :
    /\ rkvdec2_start_streaming(is_out, {}, RKVDEC2_RCB_COUNT, start_ok, FALSE)
    /\ UNCHANGED <<devVars, jobVars>>
FmtStreamOff == \E is_out \in BOOLEAN :
    rkvdec2_stop_streaming(is_out, FALSE) /\ UNCHANGED <<devVars, jobVars>>
SetOutputFmt == \E pix \in CodedPixFmts, w \in InWidths, h \in InHeights,
                   c \in Colorimetries :
    rkvdec2_s_output_fmt(UserFmt(pix, w, h, c)) /\ UNCHANGED <<devVars, jobVars>>
SetCaptureFmt == \E pix \in DecodedPixFmts, w \in InWidths, h \in InHeights,
                    c \in Colorimetries :
    rkvdec2_s_capture_fmt(UserFmt(pix, w, h, c)) /\ UNCHANGED <<devVars, jobVars>>
TryCtrl == \E hook_ok \in BOOLEAN, img \in ImageFmts :
    try_ext_ctrls(hook_ok, img) /\ UNCHANGED <<devVars, jobVars>>
SetCtrl == \E hook_ok \in BOOLEAN, img \in ImageFmts :
    s_ext_ctrls(hook_ok, img) /\ UNCHANGED <<devVars, jobVars>>

NextFmt == FmtReqBufs \/ FmtStreamOn \/ FmtStreamOff \/ SetOutputFmt
           \/ SetCaptureFmt \/ TryCtrl \/ SetCtrl

SpecFmt == InitFmt /\ [][NextFmt]_vars

----------------------------------------------------------------------------
(* Queue operations: both queues started, fed and stopped, with failures of
   the allocator and of the start hook *)

QueueReqBufs == \E is_out \in BOOLEAN, count \in {0, 2} :
    vb2_reqbufs(is_out, count) /\ UNCHANGED <<devVars, jobVars>>
QueueBufQueue == \E is_out \in BOOLEAN, req \in BOOLEAN :
    rkvdec2_buf_queue(is_out, req) /\ UNCHANGED <<devVars, jobVars>>
QueueStreamOn == \E is_out \in BOOLEAN, dma_fail \in {2, RKVDEC2_RCB_COUNT},
                    start_ok \in BOOLEAN, unmap_faults \in BOOLEAN :
    /\ rkvdec2_start_streaming(is_out, {}, dma_fail, start_ok, unmap_faults)
    /\ UNCHANGED <<devVars, jobVars>>
QueueStreamOff == \E is_out \in BOOLEAN, unmap_faults \in BOOLEAN :
    /\ rkvdec2_stop_streaming(is_out, unmap_faults)
    /\ UNCHANGED <<devVars, jobVars>>

\* plane sizes one below, at and one above the format's, for one or two planes
QueueSetup == \E is_out \in BOOLEAN, num_planes \in 0..2, d1 \in {-1, 0, 1},
                 d2 \in {-1, 0} :
    /\ \E f \in {IF is_out THEN adjust_fmt(coded_fmt)
                  ELSE rkvdec2_fill_decoded_pixfmt(decoded_fmt)} :
           vb2_create_bufs(is_out, num_planes,
                           IF num_planes = 0 THEN <<>>
                           ELSE IF num_planes = 1 THEN <<f[1] + d1>>
                           ELSE <<f[1] + d1, f[1] + d2>>)
    /\ UNCHANGED <<devVars, jobVars>>

QueueSetFmt == \E res \in Resolutions :
    /\ rkvdec2_s_output_fmt(UserFmt(V4L2_PIX_FMT_H264_SLICE, res[1], res[2],
                                    rkvdec2_reset_coded_fmt))
    /\ UNCHANGED <<devVars, jobVars>>

NextQueue == QueueReqBufs \/ QueueBufQueue \/ QueueStreamOn \/ QueueStreamOff
             \/ QueueSetup \/ QueueSetFmt

SpecQueue == InitRcb /\ [][NextQueue]_vars

----------------------------------------------------------------------------
(* Geometry of the coded format: set-format calls on an idle session over
   requests from 0 to far above the maximum *)

TryWidths == {0, 1, 63, 64, 65, 100, 1920, 4096, 65472, 65473, 65520, 65521,
              1000000}
TryHeights == {0, 15, 16, 17, 1088, 65504, 65505, 65520, 65521, 1000000}

GeomSetOutputFmt == \E pix \in CodedPixFmts, w \in TryWidths, h \in TryHeights :
    /\ rkvdec2_s_output_fmt(UserFmt(pix, w, h, rkvdec2_reset_coded_fmt))
    /\ UNCHANGED <<devVars, jobVars>>
GeomSetCaptureFmt == \E pix \in {"NV12", "OTHER"}, w \in {0, 65521}, h \in {0, 65521} :
    /\ rkvdec2_s_capture_fmt(UserFmt(pix, w, h, rkvdec2_reset_coded_fmt))
    /\ UNCHANGED <<devVars, jobVars>>

GeomEnumFramesizes == \E index \in {0, 1}, pix \in CodedPixFmts :
    /\ vidioc_enum_framesizes(index, pix)
    /\ UNCHANGED <<devVars, jobVars>>

NextGeom == GeomSetOutputFmt \/ GeomSetCaptureFmt \/ GeomEnumFramesizes

SpecGeom == InitFmt /\ [][NextGeom]_vars

----------------------------------------------------------------------------
(* Properties *)

Range(seq) == {seq[i] : i \in 1..Len(seq)}
Buf(r) == [type |-> r.type, cpu |-> r.cpu]

\* C1: every dispatched job is finished exactly once, with outcome Done or
\* Error, by exactly one of the completion paths it caused (its interrupt
\* handler run or its watchdog firing); a job that is dispatched and not yet
\* finished is still current with its watchdog pending or running.
C1_ExactlyOneCompletionPath ==
    \A j \in Jobs :
        /\ fin_count[j] <= 1
        /\ Cardinality(path_fin[j]) <= 1
        /\ (fin_count[j] = 1 =>
                outcome[j] \in {VB2_BUF_STATE_DONE, VB2_BUF_STATE_ERROR})
        /\ (j <= jobs_run /\ fin_count[j] = 0 =>
                curr_job = j /\ watchdog_work # "idle")

\* C2: once the watchdog callback has finished job j, the interrupt handler
\* run caused by job j finishes no job and cancels no later job's watchdog.
C2_LosingPathIsNoOp ==
    \A j \in Jobs :
        "watchdog" \in path_fin[j] =>
            /\ "irq" \notin path_fin[j]
            /\ ~(oops /\ irq_job = j)

\* C3: the engine never executes a job that has already been reported
\* finished: while the hardware runs a job, that job is the one dispatched.
C3_NoFinishWhileHardwareRuns ==
    hw_job # NoJob => curr_job = hw_job

\* C4: a start of the OUTPUT queue that fails with out-of-memory has released
\* every buffer it allocated exactly once, has released no other buffer, and
\* leaves no buffer allocated.
C4_Rollback ==
    (last = "start_streaming_out" /\ ret = ENOMEM /\ ~unmap_oops) =>
        /\ Len(rcb_released) = Len(rcb_allocated)
        /\ \A i \in 1..Len(rcb_released) : Buf(rcb_released[i]) \in Range(rcb_allocated)
        /\ \A a \in Range(rcb_allocated) :
               Cardinality({i \in 1..Len(rcb_released) : Buf(rcb_released[i]) = a}) = 1
        /\ sram_used = {} /\ dma_live = {}

\* C5: after the scratch buffers were released (stop of the OUTPUT queue, or
\* a failed start) all 10 records are unallocated and releasing once more
\* releases nothing.
C5_FreeIdempotent ==
    (/\ ~unmap_oops
     /\ \/ last = "stop_streaming_out"
        \/ (last = "start_streaming_out" /\ ret # "OK")) =>
        /\ \A k \in RcbKinds : rcb_bufs[k].cpu = NULL
        /\ rkvdec2_free_rcb(rcb_bufs, MemState, FALSE).released = <<>>

\* a record's buffer is allocated right now
RcbLive(k) ==
    /\ rcb_bufs[k].cpu # NULL
    /\ rcb_bufs[k].type = RKVDEC2_ALLOC_SRAM =>
           SramRange(rcb_bufs[k].cpu, rcb_bufs[k].size) \subseteq sram_used
    /\ rcb_bufs[k].type = RKVDEC2_ALLOC_DMA => rcb_bufs[k].cpu \in dma_live

\* C6: a record's cpu address is non-null iff its buffer is allocated; all 10
\* records are allocated while the OUTPUT queue streams and none otherwise.
C6_RecordInvariant ==
    ~unmap_oops =>
        /\ \A k \in RcbKinds : (rcb_bufs[k].cpu # NULL) <=> RcbLive(k)
        /\ out_streaming => \A k \in RcbKinds : rcb_bufs[k].cpu # NULL
        /\ ~out_streaming => \A k \in RcbKinds : rcb_bufs[k].cpu = NULL

RECURSIVE PoolPagesNeeded(_, _, _)
PoolPagesNeeded(k, w, h) ==
    IF k = RKVDEC2_RCB_COUNT THEN 0
    ELSE ((RCB_SIZE(k, w, h) + 4095) \div 4096) + PoolPagesNeeded(k + 1, w, h)

PoolLargeEnough ==
    sram_pool /\ PoolPagesNeeded(0, decoded_fmt.width, decoded_fmt.height) <= SramPages

\* C7: with a pool large enough for all 10 kinds, the stop that follows a
\* start which took all 10 records from the pool releases all 10, each once,
\* and leaves the pool as it was before that start; no buffer is held while
\* the OUTPUT queue is stopped and no release has faulted.
C7_PoolConservation ==
    /\ (/\ last = "stop_streaming_out"
        /\ PoolLargeEnough
        /\ \A k \in RcbKinds : rcb_bufs[k].cpu # NULL
                               /\ rcb_bufs[k].type = RKVDEC2_ALLOC_SRAM) =>
           /\ Len(rcb_released) = RKVDEC2_RCB_COUNT
           /\ \A i \in 1..Len(rcb_released) : rcb_released[i].live
           /\ sram_used = pool_at_start
    /\ (~out_streaming /\ ~unmap_oops) => sram_used = {} /\ dma_live = {}

\* C8: rkvdec2_s_output_fmt called while the OUTPUT queue streams, or while it
\* is busy and the requested pixel format differs from the coded one, or
\* while the CAPTURE queue is busy, returns -EBUSY and leaves coded_fmt,
\* coded_fmt_desc and decoded_fmt as they were.
C8_OutputFmtRejectedWhenBusy ==
    [][(/\ last' = "s_output_fmt"
        /\ \/ out_streaming
           \/ (out_busy /\ arg_pix' # coded_fmt.pixelformat)
           \/ cap_busy) =>
           /\ ret' = EBUSY
           /\ coded_fmt' = coded_fmt
           /\ coded_fmt_desc' = coded_fmt_desc
           /\ decoded_fmt' = decoded_fmt
           /\ image_fmt' = image_fmt]_vars

C8_Witness ==
    /\ last = "s_output_fmt"
    /\ ret = EBUSY
    /\ out_busy /\ ~out_streaming /\ ~cap_busy
    /\ arg_pix # coded_fmt.pixelformat

\* C9: rkvdec2_s_capture_fmt called while the CAPTURE queue is busy returns
\* -EBUSY and leaves the decoded format and all other format state as it was.
C9_CaptureFmtRejectedWhenBusy ==
    [][(last' = "s_capture_fmt" /\ cap_busy) =>
           /\ ret' = EBUSY
           /\ decoded_fmt' = decoded_fmt
           /\ coded_fmt' = coded_fmt
           /\ coded_fmt_desc' = coded_fmt_desc
           /\ image_fmt' = image_fmt]_vars

C9_Witness ==
    /\ last = "s_capture_fmt"
    /\ ret = EBUSY
    /\ cap_busy
    /\ arg_pix # decoded_fmt.pixelformat

\* C10: a device_run whose power resume fails finishes its job at once with
\* Error, without running the codec's run hook, without arming or cancelling
\* the watchdog and without releasing a power reference.
C10_ResumeFailure ==
    [][(last' = "device_run" /\ ret' = "EPM") =>
           /\ fin_count' = [fin_count EXCEPT ![jobs_run'] = @ + 1]
           /\ outcome' = [outcome EXCEPT ![jobs_run'] = VB2_BUF_STATE_ERROR]
           /\ curr_job' = NoJob
           /\ hw_job' = hw_job /\ reg_dec_e' = reg_dec_e /\ reg_irq_dis' = reg_irq_dis
           /\ watchdog_work' = watchdog_work /\ wd_job' = wd_job
           /\ pm_usage' = pm_usage]_vars

C10_Witness ==
    /\ last = "device_run"
    /\ ret = "EPM"
    /\ jobs_run >= 2
    /\ fin_count[jobs_run] = 1
    /\ outcome[jobs_run] = VB2_BUF_STATE_ERROR
    /\ pm_usage = 0

\* C11: every run of the watchdog callback leaves interrupts disabled and the
\* decode enable cleared with the engine halted, and the job that was
\* dispatched is finished once, with Error.
C11_WatchdogQuiesces ==
    [][(last' = "watchdog_func") =>
           /\ reg_irq_dis' /\ ~reg_dec_e' /\ hw_job' = NoJob
           /\ (curr_job # NoJob =>
                  /\ fin_count' = [fin_count EXCEPT ![curr_job] = @ + 1]
                  /\ outcome' = [outcome EXCEPT ![curr_job] = VB2_BUF_STATE_ERROR]
                  /\ curr_job' = NoJob)]_vars

C11_Witness ==
    /\ last = "watchdog_func"
    /\ ret = "FINISH"
    /\ reg_irq_dis /\ ~reg_dec_e
    /\ fin_count[wd_job] = 1
    /\ outcome[wd_job] = VB2_BUF_STATE_ERROR

\* C12: on a device with both IOMMU domains, the engine is not started for a
\* further job after the watchdog finished job j unless the translation
\* hardware was purged (rkvdec2_iommu_restore) for j.
C12_WatchdogPurgesIommu ==
    \A j \in Jobs :
        (/\ iommu_domain /\ empty_domain
         /\ "watchdog" \in path_fin[j]
         /\ hw_job # NoJob /\ hw_job > j) => j \in iommu_restored

\* C13: a run of the interrupt handler reads the status register and clears
\* it; when it finishes a job, the outcome is Done if the decode-ready bit is
\* in the status that run read and Error otherwise, and the handler does not
\* dispatch the job again or restart the engine.
C13_IrqClassifiesByReadyBit ==
    [][/\ (last' = "irq_entry") =>
              /\ irq_status' = reg_sta_int
              /\ reg_sta_int' = {}
       /\ (last' = "irq_cancel" /\ ret' = "FINISH" /\ curr_job # NoJob) =>
              /\ irq_pc = "cancel"
              /\ fin_count' = [fin_count EXCEPT ![curr_job] = @ + 1]
              /\ (outcome'[curr_job] = VB2_BUF_STATE_DONE
                     <=> STA_INT_DEC_RDY_STA \in irq_status)
              /\ (outcome'[curr_job] = VB2_BUF_STATE_ERROR
                     <=> STA_INT_DEC_RDY_STA \notin irq_status)
              /\ jobs_run' = jobs_run /\ hw_job' = hw_job
              /\ reg_dec_e' = reg_dec_e]_vars

C13_Witness ==
    /\ last = "irq_cancel"
    /\ ret = "FINISH"
    /\ irq_status = {STA_INT_SOFTRESET_RDY}
    /\ outcome[irq_job] = VB2_BUF_STATE_ERROR
    /\ fin_count[irq_job] = 1
    /\ reg_sta_int = {}

\* C14: a start of the OUTPUT queue calls the allocator first; when the
\* allocator fails the start fails and the start hook is not called; when the
\* start hook fails the scratch buffers are released, the start fails and no
\* record is left allocated.  A start of the CAPTURE queue allocates nothing.
C14_StartStreaming ==
    [][/\ (last' = "start_streaming_out") =>
              /\ op_trace'[1] = Call("allocate_rcb")
              /\ (Call("ops_start") \notin Range(op_trace') =>
                      ret' # "OK" /\ ~out_streaming')
              /\ (Call("ops_start") \in Range(op_trace') /\ ret' # "OK") =>
                      /\ op_trace' = <<Call("allocate_rcb"), Call("ops_start"),
                                      Call("free_rcb")>>
                      /\ ~out_streaming'
                      /\ sram_used' = {} /\ dma_live' = {}
                      /\ \A k \in RcbKinds : rcb_bufs'[k].cpu = NULL
       /\ (last' = "start_streaming_cap") =>
              /\ rcb_allocated' = <<>>
              /\ op_trace' = <<>>
              /\ UNCHANGED <<rcb_bufs, sram_used, dma_live, iommu_mapped>>]_vars

\* C15: a stop of the OUTPUT queue calls the stop hook, then releases the
\* scratch buffers, then returns every outstanding buffer of both directions
\* in the Error state, each after its control request was completed; when it
\* has returned no buffer is outstanding in either direction.
C15_StopDrainsBothDirections ==
    [][(last' = "stop_streaming_out") =>
           /\ Len(op_trace') >= 2
           /\ op_trace'[1] = Call("ops_stop")
           /\ op_trace'[2] = Call("free_rcb")
           /\ sram_used' = {} /\ dma_live' = {}
           /\ src_bufs' = <<>> /\ dst_bufs' = <<>>
           /\ \A i \in 1..Len(src_bufs) :
                  [ev |-> "buf_done", dir |-> "src", buf |-> i,
                   state |-> VB2_BUF_STATE_ERROR] \in Range(op_trace')
           /\ \A i \in 1..Len(dst_bufs) :
                  [ev |-> "buf_done", dir |-> "dst", buf |-> i,
                   state |-> VB2_BUF_STATE_ERROR] \in Range(op_trace')
           /\ \A n \in 1..Len(op_trace') :
                  (op_trace'[n].ev = "buf_done" /\ op_trace'[n].dir = "src"
                   /\ src_bufs[op_trace'[n].buf]) =>
                      \E q \in 1..(n - 1) :
                          op_trace'[q] = [ev |-> "request_complete", dir |-> "src",
                                          buf |-> op_trace'[n].buf, state |-> "-"]]_vars

\* C16: every dispatched job is eventually finished, whatever faults and
\* timeouts came before it.
C16_EveryJobFinishes ==
    \A j \in Jobs : (curr_job = j) ~> (fin_count[j] >= 1)

\* the first entry of a descriptor's decoded-format table that is compatible
\* with image kind img
FirstValidFourcc(desc, img) ==
    LET fmts == rkvdec2_coded_fmts[desc].decoded_fmts
        ok == {i \in 1..Len(fmts) : rkvdec2_image_fmt_match(fmts[i].image_fmt, img)}
    IN IF ok = {} THEN NoFourcc ELSE fmts[Min(ok)].fourcc

\* C17: in every session state rkvdec2_reset_decoded_fmt yields the format
\* that enumerating the coded descriptor's decoded formats for the current
\* image kind returns at index 0, with the coded width and height; and every
\* operation that resets the decoded format leaves exactly that in the session.
C17_ResetDecodedFmt ==
    [][/\ LET d == rkvdec2_reset_decoded_fmt(coded_fmt_desc, image_fmt, coded_fmt) IN
              /\ d.pixelformat = rkvdec2_enum_decoded_fmt(coded_fmt_desc, 0, image_fmt)
              /\ d.width = coded_fmt.width
              /\ d.height = coded_fmt.height
       /\ (\/ (last' = "s_output_fmt" /\ ret' = "OK")
           \/ (/\ last' = "s_ctrl" /\ ret' = "OK" /\ image_fmt' # image_fmt
               /\ ~rkvdec2_is_valid_fmt(coded_fmt_desc, decoded_fmt.pixelformat,
                                        image_fmt'))) =>
              /\ decoded_fmt'.pixelformat =
                     rkvdec2_enum_decoded_fmt(coded_fmt_desc', 0, image_fmt')
              /\ decoded_fmt'.pixelformat # NoFourcc
              /\ decoded_fmt'.width = coded_fmt'.width
              /\ decoded_fmt'.height = coded_fmt'.height]_vars

C17_Witness ==
    /\ last = "s_ctrl"
    /\ ret = "OK"
    /\ image_fmt = RKVDEC2_IMG_FMT_422_10BIT
    /\ decoded_fmt.pixelformat = "NV20"
    /\ coded_fmt.width = 128
    /\ decoded_fmt.width = 128
    /\ coded_fmt.colorspace = "BT2020"
    /\ decoded_fmt.colorspace = "REC709"

\* C20: an accepted rkvdec2_s_output_fmt leaves a decoded format with the new
\* coded width and height, the first pixel format valid for the image kind,
\* and the colorspace, transfer function, YCbCr encoding and quantization of
\* the new coded format.
C20_OutputFmtResetsDecoded ==
    [][(last' = "s_output_fmt" /\ ret' = "OK") =>
           /\ decoded_fmt'.width = coded_fmt'.width
           /\ decoded_fmt'.height = coded_fmt'.height
           /\ decoded_fmt'.pixelformat = FirstValidFourcc(coded_fmt_desc', image_fmt')
           /\ rkvdec2_is_valid_fmt(coded_fmt_desc', decoded_fmt'.pixelformat, image_fmt')
           /\ decoded_fmt'.colorspace = coded_fmt'.colorspace
           /\ decoded_fmt'.xfer_func = coded_fmt'.xfer_func
           /\ decoded_fmt'.ycbcr_enc = coded_fmt'.ycbcr_enc
           /\ decoded_fmt'.quantization = coded_fmt'.quantization]_vars

C20_Witness ==
    /\ last = "s_output_fmt"
    /\ ret = "OK"
    /\ image_fmt = RKVDEC2_IMG_FMT_420_10BIT
    /\ coded_fmt.width = 128
    /\ decoded_fmt.width = 128
    /\ decoded_fmt.pixelformat = "NV15"
    /\ decoded_fmt.colorspace = "BT2020"
    /\ decoded_fmt.quantization = "LIM_RANGE"

ContractRawSize(k, w, h) ==
    LET mult == <<6, 1, 1, 3, 6, 3, 22, 6, 11, 67>>
        on_height == <<FALSE, FALSE, TRUE, FALSE, FALSE, TRUE, FALSE, FALSE, FALSE, TRUE>>
    IN mult[k + 1] * (IF on_height[k + 1] THEN h ELSE w)
ContractRoundUp(x) == IF x % 4096 = 0 THEN x ELSE x + (4096 - (x % 4096))

\* C18: after a successful start at any width and height, the record of every
\* scratch-buffer kind k holds, on the system-memory path, multiplier[k] times
\* the picture height (kinds on the height axis) or width (the others), with
\* the multipliers 6,1,1,3,6,3,22,6,11,67 on the axes W,W,H,W,W,H,W,W,W,H, and
\* on the on-chip path with address translation that value rounded up to the
\* next multiple of 4096.
C18_RcbSizes ==
    [][/\ \A k \in RcbKinds, w \in {64, 1920, 65536}, h \in {16, 1088, 65520} :
              RCB_SIZE(k, w, h) = ContractRawSize(k, w, h)
       /\ (last' = "start_streaming_out" /\ ret' = "OK") =>
              \A k \in RcbKinds :
                  /\ rcb_bufs'[k].cpu # NULL
                  /\ (rcb_bufs'[k].type = RKVDEC2_ALLOC_DMA) =>
                         rcb_bufs'[k].size =
                             ContractRawSize(k, coded_fmt'.width, coded_fmt'.height)
                  /\ (rcb_bufs'[k].type = RKVDEC2_ALLOC_SRAM /\ iommu_domain) =>
                         rcb_bufs'[k].size =
                             ContractRoundUp(ContractRawSize(k, coded_fmt'.width,
                                                             coded_fmt'.height))]_vars

\* a started session at a size above the minimum whose records are partly
\* on-chip behind the translation, with a size that the rounding changed, and
\* partly in system memory, with a size that is no multiple of 4096
C18_Witness ==
    /\ last = "start_streaming_out" /\ ret = "OK"
    /\ iommu_domain /\ coded_fmt.width > 64
    /\ \E k \in RcbKinds :
           /\ rcb_bufs[k].type = RKVDEC2_ALLOC_SRAM
           /\ rcb_bufs[k].size # RCB_SIZE(k, coded_fmt.width, coded_fmt.height)
    /\ \E k \in RcbKinds :
           /\ rcb_bufs[k].type = RKVDEC2_ALLOC_DMA
           /\ rcb_bufs[k].size % 4096 # 0

ValidFourccs(desc, img) ==
    {rkvdec2_coded_fmts[desc].decoded_fmts[i].fourcc :
        i \in {n \in 1..Len(rkvdec2_coded_fmts[desc].decoded_fmts) :
                  \/ rkvdec2_coded_fmts[desc].decoded_fmts[n].image_fmt = img
                  \/ rkvdec2_coded_fmts[desc].decoded_fmts[n].image_fmt = RKVDEC2_IMG_FMT_ANY
                  \/ img = RKVDEC2_IMG_FMT_ANY}}

\* C22: control validation rejects a value whose image kind differs from the
\* session's and under which the current decoded pixel format is invalid,
\* whenever the CAPTURE queue is busy; it accepts when the image kind is
\* unchanged, when the decoded pixel format stays valid, or when the CAPTURE
\* queue is not busy; it never changes the session.
C22_TryCtrlAsStated ==
    [][(last' = "try_ctrl") =>
           /\ (/\ arg_ctrl'.img # image_fmt
               /\ decoded_fmt.pixelformat \notin ValidFourccs(coded_fmt_desc, arg_ctrl'.img)
               /\ cap_busy) => ret' # "OK"
           /\ (\/ arg_ctrl'.img = image_fmt
               \/ decoded_fmt.pixelformat \in ValidFourccs(coded_fmt_desc, arg_ctrl'.img)
               \/ ~cap_busy) => ret' = "OK"
           /\ UNCHANGED <<fmtVars, queueVars, rcb_bufs, src_bufs, dst_bufs, memVars>>]_vars

\* C22 (amended): the same, where the accepting cases hold for a control value
\* that the codec's own try_ctrl hook accepted; a value the hook rejects is
\* rejected whatever the image kind and the queue state.
C22_TryCtrl ==
    [][(last' = "try_ctrl") =>
           /\ (/\ arg_ctrl'.img # image_fmt
               /\ decoded_fmt.pixelformat \notin ValidFourccs(coded_fmt_desc, arg_ctrl'.img)
               /\ cap_busy) => ret' # "OK"
           /\ ~arg_ctrl'.hook_ok => ret' # "OK"
           /\ (/\ arg_ctrl'.hook_ok
               /\ \/ arg_ctrl'.img = image_fmt
                  \/ decoded_fmt.pixelformat \in ValidFourccs(coded_fmt_desc, arg_ctrl'.img)
                  \/ ~cap_busy) => ret' = "OK"
           /\ UNCHANGED <<fmtVars, queueVars, rcb_bufs, src_bufs, dst_bufs, memVars>>]_vars

\* a validation that was refused for the image kind alone: the hook accepted,
\* the CAPTURE queue is busy and the decoded pixel format does not fit the kind
C22_Witness ==
    /\ last = "try_ctrl"
    /\ ret # "OK"
    /\ arg_ctrl.hook_ok
    /\ cap_busy
    /\ arg_ctrl.img # image_fmt
    /\ decoded_fmt.pixelformat \notin ValidFourccs(coded_fmt_desc, arg_ctrl.img)

\* C23: applying a control whose image kind differs from the session's sets
\* the session's image kind to it and resets the decoded format exactly when
\* the current decoded pixel format is not valid under the new kind; applying
\* one with the same image kind leaves image kind and decoded format alone;
\* the coded format is never changed.
C23_SetCtrl ==
    [][(last' = "s_ctrl" /\ ret' = "OK") =>
           /\ UNCHANGED <<coded_fmt, coded_fmt_desc>>
           /\ (arg_ctrl'.img = image_fmt) => UNCHANGED <<image_fmt, decoded_fmt>>
           /\ (arg_ctrl'.img # image_fmt) =>
                  /\ image_fmt' = arg_ctrl'.img
                  /\ IF decoded_fmt.pixelformat \in ValidFourccs(coded_fmt_desc, arg_ctrl'.img)
                     THEN UNCHANGED decoded_fmt
                     ELSE /\ decoded_fmt'.pixelformat =
                                 FirstValidFourcc(coded_fmt_desc, arg_ctrl'.img)
                          /\ decoded_fmt'.pixelformat # decoded_fmt.pixelformat
                          /\ decoded_fmt'.width = coded_fmt.width
                          /\ decoded_fmt'.height = coded_fmt.height]_vars

\* a control that changed the image kind to 10-bit 4:2:0 was applied and the
\* decoded format is the reset one, not the one negotiated before
C23_Witness ==
    /\ last = "s_ctrl"
    /\ ret = "OK"
    /\ arg_ctrl.img = RKVDEC2_IMG_FMT_420_10BIT
    /\ image_fmt = RKVDEC2_IMG_FMT_420_10BIT
    /\ decoded_fmt.pixelformat = "NV15"
    /\ decoded_fmt.colorspace # coded_fmt.colorspace

\* plane sizes of the current format of a direction, as queue setup sees them
PlaneSizes(is_out) ==
    IF is_out THEN adjust_fmt(coded_fmt) ELSE rkvdec2_fill_decoded_pixfmt(decoded_fmt)

\* C24: queue setup with a zero plane count fills in the plane count and the
\* plane sizes of the direction's current format and succeeds; with a
\* non-zero plane count it rejects with EINVAL a plane count different from
\* the format's and any plane size that does not match the format's.
C24_QueueSetupAsStated ==
    [][(last' = "queue_setup") =>
           /\ (arg_planes'.num_planes = 0) =>
                  /\ ret' = "OK"
                  /\ arg_planes'.num_planes_out = Len(PlaneSizes(arg_planes'.is_out))
                  /\ arg_planes'.sizes_out = PlaneSizes(arg_planes'.is_out)
           /\ (/\ arg_planes'.num_planes # 0
               /\ \/ arg_planes'.num_planes # Len(PlaneSizes(arg_planes'.is_out))
                  \/ \E i \in 1..Len(PlaneSizes(arg_planes'.is_out)) :
                         arg_planes'.sizes[i] # PlaneSizes(arg_planes'.is_out)[i])
                  => ret' = EINVAL]_vars

\* C24 (amended): the same, where a plane size is rejected only when it is
\* smaller than the format's; a call with the format's plane count and plane
\* sizes at least the format's succeeds and leaves count and sizes as passed.
C24_QueueSetup ==
    [][(last' = "queue_setup") =>
           /\ (arg_planes'.num_planes = 0) =>
                  /\ ret' = "OK"
                  /\ arg_planes'.num_planes_out = Len(PlaneSizes(arg_planes'.is_out))
                  /\ arg_planes'.sizes_out = PlaneSizes(arg_planes'.is_out)
           /\ (arg_planes'.num_planes # 0) =>
                  /\ (ret' = EINVAL) <=>
                         \/ arg_planes'.num_planes # Len(PlaneSizes(arg_planes'.is_out))
                         \/ \E i \in 1..Len(PlaneSizes(arg_planes'.is_out)) :
                                arg_planes'.sizes[i] < PlaneSizes(arg_planes'.is_out)[i]
                  /\ ret' \in {"OK", EINVAL}
                  /\ arg_planes'.num_planes_out = arg_planes'.num_planes
                  /\ arg_planes'.sizes_out = arg_planes'.sizes
           /\ UNCHANGED fmtVars]_vars

\* a caller-supplied plane larger than the format's was accepted
C24_Witness ==
    /\ last = "queue_setup"
    /\ ret = "OK"
    /\ arg_planes.num_planes = 1
    /\ arg_planes.sizes[1] > PlaneSizes(arg_planes.is_out)[1]

\* C25: enumerating the frame sizes of a supported coded format (index 0)
\* reports the minimum, maximum and step of width and height of the format's
\* descriptor; an unknown coded format or an index other than 0 is rejected.
C25_EnumFramesizesAsStated ==
    [][(last' = "enum_framesizes") =>
           IF /\ arg_fsize'.index = 0
              /\ \E d \in 1..Len(rkvdec2_coded_fmts) :
                     rkvdec2_coded_fmts[d].fourcc = arg_fsize'.pixel_format
           THEN /\ ret' = "OK"
                /\ \E d \in 1..Len(rkvdec2_coded_fmts) :
                       /\ rkvdec2_coded_fmts[d].fourcc = arg_fsize'.pixel_format
                       /\ arg_fsize'.stepwise = rkvdec2_coded_fmts[d].frmsize
           ELSE ret' = EINVAL]_vars

\* C25 (amended): for a supported coded format and index 0 the report is a
\* continuous range: minimum 1 and step 1 on both axes, and the maximum width
\* and height of the format's descriptor; an unknown coded format or an index
\* other than 0 is rejected and nothing is reported.
C25_EnumFramesizes ==
    [][(last' = "enum_framesizes") =>
           IF /\ arg_fsize'.index = 0
              /\ \E d \in 1..Len(rkvdec2_coded_fmts) :
                     rkvdec2_coded_fmts[d].fourcc = arg_fsize'.pixel_format
           THEN /\ ret' = "OK"
                /\ arg_fsize'.type = V4L2_FRMSIZE_TYPE_CONTINUOUS
                /\ arg_fsize'.stepwise.min_width = 1
                /\ arg_fsize'.stepwise.min_height = 1
                /\ arg_fsize'.stepwise.step_width = 1
                /\ arg_fsize'.stepwise.step_height = 1
                /\ \E d \in 1..Len(rkvdec2_coded_fmts) :
                       /\ rkvdec2_coded_fmts[d].fourcc = arg_fsize'.pixel_format
                       /\ arg_fsize'.stepwise.max_width =
                              rkvdec2_coded_fmts[d].frmsize.max_width
                       /\ arg_fsize'.stepwise.max_height =
                              rkvdec2_coded_fmts[d].frmsize.max_height
           ELSE /\ ret' = EINVAL
                /\ arg_fsize'.stepwise = NoStepwise]_vars

\* the frame sizes of H.264 were enumerated after a coded format was set
C25_Witness ==
    /\ last = "enum_framesizes"
    /\ ret = "OK"
    /\ arg_fsize.pixel_format = V4L2_PIX_FMT_H264_SLICE
    /\ arg_fsize.stepwise.max_width = 65520
    /\ coded_fmt.width = 1920

\* C26: the interrupt handler performs the address-translation purge exactly
\* when the status it read has the soft-reset-ready bit or lacks the
\* decode-ready bit, and both domains exist; when it performs the purge, the
\* job it serves is not finished yet and no next job has been dispatched.
C26_IrqPurge ==
    [][(last' = "irq_entry") =>
           /\ (irq_job' \in iommu_restored' /\ irq_job' \notin iommu_restored) <=>
                  /\ \/ STA_INT_SOFTRESET_RDY \in irq_status'
                     \/ STA_INT_DEC_RDY_STA \notin irq_status'
                  /\ iommu_domain /\ empty_domain
           /\ (iommu_restored' # iommu_restored) =>
                  /\ fin_count[irq_job'] = 0
                  /\ curr_job = irq_job'
                  /\ hw_job = NoJob]_vars

\* C27: in every state of a session the decoded pixel format is one of the
\* decoded formats of the current coded descriptor whose image kind matches
\* the session's image kind.
C27_DecodedPixFmtValid ==
    decoded_fmt.pixelformat \in ValidFourccs(coded_fmt_desc, image_fmt)

\* a CAPTURE format was set with a pixel format that does not fit the image
\* kind negotiated by a control, and another one was stored
C27_Witness ==
    /\ last = "s_capture_fmt"
    /\ ret = "OK"
    /\ image_fmt = RKVDEC2_IMG_FMT_422_8BIT
    /\ arg_pix = "NV12"
    /\ decoded_fmt.pixelformat = "NV16"

\* C28: while the CAPTURE queue has buffers allocated, no set-format call and
\* no validated and applied control changes the decoded format.
C28_DecodedFmtFrozenWhileBusy ==
    [][cap_busy => decoded_fmt' = decoded_fmt]_vars

\* with CAPTURE buffers allocated a control changed the image kind from ANY
\* to 8-bit 4:2:0 and the decoded format negotiated before (wider than the
\* coded format) is still in place
C28_Witness ==
    /\ cap_busy
    /\ last = "s_ctrl"
    /\ ret = "OK"
    /\ arg_ctrl.img = RKVDEC2_IMG_FMT_420_8BIT
    /\ image_fmt = RKVDEC2_IMG_FMT_420_8BIT
    /\ decoded_fmt.pixelformat = "NV12"
    /\ decoded_fmt.width > coded_fmt.width

\* C29: every unmap that a release of the scratch buffers issues undoes a
\* mapping installed when the record was allocated: none is issued for a pool
\* record on a device without translation domain (neither one that faults nor
\* one that returns), and none for a range that is not mapped.
C29_UnmapMatchesMap ==
    /\ ~unmap_oops
    /\ \A i \in 1..Len(rcb_released) :
           rcb_released[i].type = RKVDEC2_ALLOC_SRAM => rcb_released[i].unmap = "mapped"

====
